---- MODULE Spec2Model ----
(***************************************************************************)
(* Model of QB_ArcGIS_Sync_Automated.py: the one-way synchronisation of    *)
(* Quickbase rows (FDH and MDU tables) into ArcGIS feature layers.          *)
(*                                                                         *)
(* Python values are records with a type tag; strings are sequences of     *)
(* one-character strings so that strip(), lower(), pattern matching and     *)
(* date parsing are computed, character by character, as the code does.    *)
(***************************************************************************)
EXTENDS Integers, Sequences, FiniteSets, TLC

(***************************************************************************)
(* Bounds of the model.                                                     *)
(***************************************************************************)
\* largest number of rows a Quickbase table holds in a run
MaxRows == 1
\* largest number of features a layer holds
MaxFeats == 3
\* largest --batch-size tried (the smallest is 1)
MaxBatch == 2

(***************************************************************************)
(* Python values.  A number n + f/10 is kept as the integer n (its floor)   *)
(* and the tenths digit f, so round() and int() have something to do.      *)
(***************************************************************************)
PyVal(tag, cs, i, tenths, dparts, elems) ==
    [t |-> tag, s |-> cs, n |-> i, f |-> tenths, d |-> dparts, l |-> elems]

NoneV == PyVal("none", <<>>, 0, 0, <<>>, <<>>)
StrV(cs) == PyVal("str", cs, 0, 0, <<>>, <<>>)
IntV(i) == PyVal("int", <<>>, i, 0, <<>>, <<>>)
FloatV(i, tenths) == PyVal("float", <<>>, i, tenths, <<>>, <<>>)
BoolV(b) == PyVal("bool", <<>>, IF b THEN 1 ELSE 0, 0, <<>>, <<>>)
ListV(elems) == PyVal("list", <<>>, 0, 0, <<>>, elems)
\* datetime(y, mo, dd, h, mi, se, us), naive
DtV(y, mo, dd, h, mi, se, us) == PyVal("dt", <<>>, 0, 0, <<y, mo, dd, h, mi, se, us>>, <<>>)

UNPARSEABLE_DATE == PyVal("unparseable", <<>>, 0, 0, <<>>, <<>>)

IsNone(v) == v.t = "none"
IsStr(v) == v.t = "str"
IsList(v) == v.t = "list"
\* isinstance(v, (int, float)); bool is a subclass of int
IsNumber(v) == v.t \in {"int", "float", "bool"}
IsEmptyStr(v) == v.t = "str" /\ v.s = <<>>
IsZero(v) == IsNumber(v) /\ v.n = 0 /\ v.f = 0

\* bool(v): the truth value the `if x` / `not x` tests of the code use
Truthy(v) ==
    CASE v.t = "none" -> FALSE
      [] v.t = "str" -> v.s # <<>>
      [] v.t = "list" -> v.l # <<>>
      [] v.t \in {"int", "float", "bool"} -> ~IsZero(v)
      [] OTHER -> TRUE

\* v in (None, "")
InNoneEmpty(v) == IsNone(v) \/ IsEmptyStr(v)
\* v in (None, "", 0): membership tests with ==, so 0.0 and False count as 0
InNoneEmptyZero(v) == IsNone(v) \/ IsEmptyStr(v) \/ IsZero(v)

(***************************************************************************)
(* Characters and strings.                                                  *)
(***************************************************************************)
DigitChars == {"0", "1", "2", "3", "4", "5", "6", "7", "8", "9"}
SpaceChars == {" ", "\t", "\n", "\r"}

DigitVal(c) ==
    CASE c = "0" -> 0 [] c = "1" -> 1 [] c = "2" -> 2 [] c = "3" -> 3
      [] c = "4" -> 4 [] c = "5" -> 5 [] c = "6" -> 6 [] c = "7" -> 7
      [] c = "8" -> 8 [] c = "9" -> 9

DigitChar(i) ==
    CASE i = 0 -> "0" [] i = 1 -> "1" [] i = 2 -> "2" [] i = 3 -> "3"
      [] i = 4 -> "4" [] i = 5 -> "5" [] i = 6 -> "6" [] i = 7 -> "7"
      [] i = 8 -> "8" [] i = 9 -> "9"

LowerChar(c) ==
    CASE c = "A" -> "a" [] c = "B" -> "b" [] c = "C" -> "c" [] c = "D" -> "d"
      [] c = "E" -> "e" [] c = "F" -> "f" [] c = "G" -> "g" [] c = "H" -> "h"
      [] c = "I" -> "i" [] c = "J" -> "j" [] c = "K" -> "k" [] c = "L" -> "l"
      [] c = "M" -> "m" [] c = "N" -> "n" [] c = "O" -> "o" [] c = "P" -> "p"
      [] c = "Q" -> "q" [] c = "R" -> "r" [] c = "S" -> "s" [] c = "T" -> "t"
      [] c = "U" -> "u" [] c = "V" -> "v" [] c = "W" -> "w" [] c = "X" -> "x"
      [] c = "Y" -> "y" [] c = "Z" -> "z" [] OTHER -> c

\* str.lower()
RECURSIVE Lower(_)
Lower(cs) == IF cs = <<>> THEN <<>> ELSE <<LowerChar(Head(cs))>> \o Lower(Tail(cs))

RECURSIVE LStrip(_)
LStrip(cs) ==
    IF cs # <<>> /\ Head(cs) \in SpaceChars THEN LStrip(Tail(cs)) ELSE cs

RECURSIVE RStrip(_)
RStrip(cs) ==
    IF cs # <<>> /\ cs[Len(cs)] \in SpaceChars
    THEN RStrip(SubSeq(cs, 1, Len(cs) - 1))
    ELSE cs

\* str.strip()
Strip(cs) == RStrip(LStrip(cs))

StartsWith(cs, c) == cs # <<>> /\ cs[1] = c
EndsWith(cs, c) == cs # <<>> /\ cs[Len(cs)] = c

IsDigits(cs) == \A i \in 1..Len(cs) : cs[i] \in DigitChars

RECURSIVE CharsToInt(_)
CharsToInt(cs) ==
    IF cs = <<>> THEN 0
    ELSE 10 * CharsToInt(SubSeq(cs, 1, Len(cs) - 1)) + DigitVal(cs[Len(cs)])

RECURSIVE NatToChars(_)
NatToChars(i) ==
    IF i < 10 THEN <<DigitChar(i)>>
    ELSE Append(NatToChars(i \div 10), DigitChar(i % 10))

IntToChars(i) == IF i < 0 THEN <<"-">> \o NatToChars(0 - i) ELSE NatToChars(i)

\* a number printed on at least two digits, as "%02d"
Pad2(i) == IF i < 10 THEN <<"0">> \o NatToChars(i) ELSE NatToChars(i)
Pad4(i) ==
    IF i < 10 THEN <<"0", "0", "0">> \o NatToChars(i)
    ELSE IF i < 100 THEN <<"0", "0">> \o NatToChars(i)
    ELSE IF i < 1000 THEN <<"0">> \o NatToChars(i)
    ELSE NatToChars(i)

\* repr of a float n + f/10 (n is the floor): "12.0", "2.5", "-2.5"
FloatToChars(i, tenths) ==
    IF i >= 0 THEN NatToChars(i) \o <<".", DigitChar(tenths)>>
    ELSE IF tenths = 0 THEN <<"-">> \o NatToChars(0 - i) \o <<".", "0">>
    ELSE <<"-">> \o NatToChars(0 - i - 1) \o <<".", DigitChar(10 - tenths)>>

\* str(v) for the scalar values a Quickbase cell or a feature attribute holds
PyStr(v) ==
    CASE v.t = "none" -> <<"N", "o", "n", "e">>
      [] v.t = "str" -> v.s
      [] v.t = "int" -> IntToChars(v.n)
      [] v.t = "float" -> FloatToChars(v.n, v.f)
      [] v.t = "bool" -> IF v.n = 1 THEN <<"T", "r", "u", "e">>
                         ELSE <<"F", "a", "l", "s", "e">>
      [] v.t = "dt" -> Pad4(v.d[1]) \o <<"-">> \o Pad2(v.d[2]) \o <<"-">> \o Pad2(v.d[3])
                       \o <<" ">> \o Pad2(v.d[4]) \o <<":">> \o Pad2(v.d[5])
                       \o <<":">> \o Pad2(v.d[6])
      [] OTHER -> <<"?">>

\* ", ".join([str(x) for x in vs if x not in (None, "")])
RECURSIVE JoinKept(_)
JoinKept(vs) ==
    IF vs = <<>> THEN <<>>
    ELSE IF InNoneEmpty(Head(vs)) THEN JoinKept(Tail(vs))
    ELSE IF \A i \in 1..Len(Tail(vs)) : InNoneEmpty(Tail(vs)[i])
    THEN PyStr(Head(vs))
    ELSE PyStr(Head(vs)) \o <<",", " ">> \o JoinKept(Tail(vs))

(***************************************************************************)
(* fetch_quickbase_records: the cleaning of one cell value.                 *)
(* (Operators are cut into small steps, each taking the value computed by   *)
(* the step before as a parameter, where the Python names a local.)         *)
(***************************************************************************)
S_null == <<"n", "u", "l", "l">>
S_none == <<"n", "o", "n", "e">>
S_na == <<"n", "/", "a">>
S_bnull == <<"<", "n", "u", "l", "l", ">">>

\* list -> scalar/string
CollapseList(val) ==
    IF IsList(val)
    THEN IF Len(val.l) = 1 THEN val.l[1] ELSE StrV(JoinKept(val.l))
    ELSE val

\* normalize QB null sentinels, st being val.strip()
CleanStripped(st) ==
    IF st \in {<<"<", "N", "u", "l", "l", ">">>, <<"<", "N", "U", "L", "L", ">">>, S_bnull}
       \/ Lower(st) \in {S_null, S_none, S_na}
    THEN NoneV
    ELSE IF StartsWith(st, "<") /\ EndsWith(st, ">") THEN NoneV
    ELSE StrV(st)

CleanCollapsed(val) == IF IsStr(val) THEN CleanStripped(Strip(val.s)) ELSE val

CleanCell(raw) == CleanCollapsed(CollapseList(raw))

(***************************************************************************)
(* The value helpers nested in update_arcgis_from_qb and, with the same     *)
(* bodies, in update_mdu_arcgis_from_qb.                                    *)
(***************************************************************************)
normalize_qb_value(v) ==
    IF IsNone(v) \/ IsEmptyStr(v) THEN NoneV
    ELSE IF IsList(v)
    THEN IF Len(v.l) = 0 THEN NoneV
         ELSE IF Len(v.l) = 1 THEN v.l[1]
         ELSE StrV(JoinKept(v.l))
    ELSE v

\* the sentinel tests of sanitize_arc_text on s = v.strip()
SanitizeStripped(st) ==
    IF Lower(st) \in {S_bnull, S_null, S_none, S_na} THEN NoneV
    ELSE IF StartsWith(st, "<") /\ EndsWith(st, ">") THEN NoneV
    ELSE StrV(st)

SanitizeNormal(v) ==
    IF IsNone(v) THEN NoneV
    ELSE IF IsStr(v) THEN SanitizeStripped(Strip(v.s))
    ELSE v

sanitize_arc_text(v) == SanitizeNormal(normalize_qb_value(v))

\* position of the first character of cs at or after `from` that is in chars,
\* 0 when there is none
RECURSIVE FirstIndex(_, _, _)
FirstIndex(cs, chars, from) ==
    IF from > Len(cs) THEN 0
    ELSE IF cs[from] \in chars THEN from
    ELSE FirstIndex(cs, chars, from + 1)

\* float(cs) for a decimal numeral: [sign] digits [. digits], surrounding
\* white space allowed.  The numerals of the model carry at most one
\* significant fractional digit; exponents, "inf" and "nan" are not among them.
FloatOfDigits(neg, ip, fp) ==
    IF ~(IsDigits(ip) /\ IsDigits(fp) /\ Len(ip) + Len(fp) >= 1 /\ Len(ip) <= 9) THEN NoneV
    ELSE IF ~neg THEN FloatV(CharsToInt(ip), IF fp = <<>> THEN 0 ELSE DigitVal(fp[1]))
    ELSE IF fp = <<>> \/ fp[1] = "0" THEN FloatV(0 - CharsToInt(ip), 0)
    ELSE FloatV(0 - CharsToInt(ip) - 1, 10 - DigitVal(fp[1]))

FloatOfBody(neg, body, dot) ==
    FloatOfDigits(neg,
                  IF dot = 0 THEN body ELSE SubSeq(body, 1, dot - 1),
                  IF dot = 0 THEN <<>> ELSE SubSeq(body, dot + 1, Len(body)))

FloatOfSigned(neg, body) == FloatOfBody(neg, body, FirstIndex(body, {"."}, 1))

FloatOfStripped(cs) ==
    FloatOfSigned(StartsWith(cs, "-"),
                  IF StartsWith(cs, "-") \/ StartsWith(cs, "+") THEN Tail(cs) ELSE cs)

StrToFloat(cs) == FloatOfStripped(Strip(cs))

\* float(v), None where Python raises
PyFloat(v) ==
    CASE v.t \in {"int", "float", "bool"} -> FloatV(v.n, v.f)
      [] v.t = "str" -> StrToFloat(v.s)
      [] OTHER -> NoneV

CoerceNormal(v) == IF IsNone(v) \/ IsEmptyStr(v) THEN NoneV ELSE PyFloat(v)

coerce_number(v) == CoerceNormal(normalize_qb_value(v))

\* int(round(num)): round half to even
IntRound(num) ==
    IF num.f < 5 THEN IntV(num.n)
    ELSE IF num.f > 5 THEN IntV(num.n + 1)
    ELSE IF num.n % 2 = 0 THEN IntV(num.n) ELSE IntV(num.n + 1)

qb_checkbox_value(val) ==
    IF IsNone(val) THEN FALSE
    ELSE IF val.t = "bool" THEN val.n = 1
    ELSE Lower(Strip(PyStr(val))) \in
            { <<"1">>, <<"t", "r", "u", "e">>, <<"y", "e", "s">>, <<"y">>,
              <<"c", "h", "e", "c", "k", "e", "d">> }

(***************************************************************************)
(* parse_qb_date.  The result is None (NoneV), a datetime (DtV) or the      *)
(* sentinel UNPARSEABLE_DATE.                                               *)
(***************************************************************************)
IsLeap(y) == (y % 4 = 0 /\ y % 100 # 0) \/ y % 400 = 0

DaysInMonth(y, mo) ==
    CASE mo \in {1, 3, 5, 7, 8, 10, 12} -> 31
      [] mo \in {4, 6, 9, 11} -> 30
      [] mo = 2 -> IF IsLeap(y) THEN 29 ELSE 28
      [] OTHER -> 0

\* the range checks of the datetime constructor (MINYEAR = 1, MAXYEAR = 9999)
ValidDate(y, mo, dd) ==
    /\ y >= 1 /\ y <= 9999
    /\ mo >= 1 /\ mo <= 12
    /\ dd >= 1 /\ dd <= DaysInMonth(y, mo)

ValidTime(h, mi, se) == h \in 0..23 /\ mi \in 0..59 /\ se \in 0..59

\* dt.datetime(y, mo, d), UNPARSEABLE_DATE where the constructor raises
MakeDate(y, mo, dd) ==
    IF ValidDate(y, mo, dd) THEN DtV(y, mo, dd, 0, 0, 0, 0) ELSE UNPARSEABLE_DATE

\* re.match(r"^(\d{4})-(\d{2})-(\d{2})$", s)
MatchesYMD(cs) ==
    /\ Len(cs) = 10
    /\ cs[5] = "-" /\ cs[8] = "-"
    /\ IsDigits(SubSeq(cs, 1, 4)) /\ IsDigits(SubSeq(cs, 6, 7)) /\ IsDigits(SubSeq(cs, 9, 10))

\* s.replace("Z", "+00:00")
RECURSIVE ReplaceZ(_)
ReplaceZ(cs) ==
    IF cs = <<>> THEN <<>>
    ELSE IF Head(cs) = "Z" THEN <<"+", "0", "0", ":", "0", "0">> \o ReplaceZ(Tail(cs))
    ELSE <<Head(cs)>> \o ReplaceZ(Tail(cs))

\* the two digits of cs at i, 99 when they are not there
TwoDigits(cs, i) ==
    IF i + 1 <= Len(cs) /\ IsDigits(SubSeq(cs, i, i + 1))
    THEN CharsToInt(SubSeq(cs, i, i + 1)) ELSE 99

\* the shapes of the clock part of an ISO string: HH, HH:MM, HH:MM:SS, and a
\* fraction of 3 or 6 digits after the seconds
ClockShape(cs, n) ==
    \/ n = 2
    \/ n = 5 /\ cs[3] = ":"
    \/ n = 8 /\ cs[3] = ":" /\ cs[6] = ":"
    \/ n \in {12, 15} /\ cs[3] = ":" /\ cs[6] = ":" /\ cs[9] = "." /\ IsDigits(SubSeq(cs, 10, n))

ClockMicros(cs, n) ==
    IF n = 12 THEN 1000 * CharsToInt(SubSeq(cs, 10, 12))
    ELSE IF n = 15 THEN CharsToInt(SubSeq(cs, 10, 15))
    ELSE 0

ClockOf(shape, h, mi, se, us) ==
    IF shape /\ ValidTime(h, mi, se) THEN <<TRUE, h, mi, se, us>> ELSE <<FALSE, 0, 0, 0, 0>>

\* <<ok, h, mi, se, us>>
IsoClock(cs) ==
    ClockOf(ClockShape(cs, Len(cs)), TwoDigits(cs, 1),
            IF Len(cs) >= 5 THEN TwoDigits(cs, 4) ELSE 0,
            IF Len(cs) >= 8 THEN TwoDigits(cs, 7) ELSE 0,
            ClockMicros(cs, Len(cs)))

\* a UTC offset: +HH:MM or -HH:MM (the empty string is no offset)
IsoOffsetOk(cs) ==
    \/ cs = <<>>
    \/ /\ Len(cs) = 6 /\ cs[1] \in {"+", "-"} /\ cs[4] = ":"
       /\ TwoDigits(cs, 2) \in 0..23 /\ TwoDigits(cs, 5) \in 0..59

IsoDateTime(y, mo, dd, clock, offset_ok) ==
    IF ~ValidDate(y, mo, dd) THEN NoneV
    ELSE IF clock[1] /\ offset_ok THEN DtV(y, mo, dd, clock[2], clock[3], clock[4], clock[5])
    ELSE NoneV

\* rest is what follows the date and the separator; cut is where its offset starts
IsoRest(y, mo, dd, rest, cut) ==
    IsoDateTime(y, mo, dd,
                IsoClock(IF cut = 0 THEN rest ELSE SubSeq(rest, 1, cut - 1)),
                IsoOffsetOk(IF cut = 0 THEN <<>> ELSE SubSeq(rest, cut, Len(rest))))

IsoParts(y, mo, dd, rest) == IsoRest(y, mo, dd, rest, FirstIndex(rest, {"+", "-"}, 1))

\* dt.datetime.fromisoformat(cs).replace(tzinfo=None), NoneV where it raises:
\* YYYY-MM-DD, then optionally one separator character, a clock and an offset
FromIsoFormat(cs) ==
    IF Len(cs) < 10 \/ ~MatchesYMD(SubSeq(cs, 1, 10)) THEN NoneV
    ELSE IF Len(cs) = 10
    THEN IF MakeDate(CharsToInt(SubSeq(cs, 1, 4)), CharsToInt(SubSeq(cs, 6, 7)),
                     CharsToInt(SubSeq(cs, 9, 10))) = UNPARSEABLE_DATE
         THEN NoneV
         ELSE DtV(CharsToInt(SubSeq(cs, 1, 4)), CharsToInt(SubSeq(cs, 6, 7)),
                  CharsToInt(SubSeq(cs, 9, 10)), 0, 0, 0, 0)
    ELSE IsoParts(CharsToInt(SubSeq(cs, 1, 4)), CharsToInt(SubSeq(cs, 6, 7)),
                  CharsToInt(SubSeq(cs, 9, 10)), SubSeq(cs, 12, Len(cs)))

\* cs cut at every occurrence of the character sep
RECURSIVE SplitOn(_, _)
SplitAt(cs, sep, i) ==
    IF i = 0 THEN <<cs>>
    ELSE <<SubSeq(cs, 1, i - 1)>> \o SplitOn(SubSeq(cs, i + 1, Len(cs)), sep)

SplitOn(cs, sep) == SplitAt(cs, sep, FirstIndex(cs, {sep}, 1))

\* the strptime directives of the five formats, each on a whole field
FieldM(cs) == Len(cs) \in {1, 2} /\ IsDigits(cs) /\ CharsToInt(cs) \in 1..12
FieldD(cs) ==
    \/ Len(cs) \in {1, 2} /\ IsDigits(cs) /\ CharsToInt(cs) \in 1..31
    \/ Len(cs) = 2 /\ cs[1] = " " /\ cs[2] \in DigitChars \ {"0"}
FieldBigY(cs) == Len(cs) = 4 /\ IsDigits(cs)
FieldSmallY(cs) == Len(cs) = 2 /\ IsDigits(cs)
DayOf(cs) == IF cs[1] = " " THEN DigitVal(cs[2]) ELSE CharsToInt(cs)
\* %y: 69-99 are 1969-1999, 00-68 are 2000-2068
Century(yy) == IF yy <= 68 THEN 2000 + yy ELSE 1900 + yy

StrpDate(y, mo, dd) == IF ValidDate(y, mo, dd) THEN DtV(y, mo, dd, 0, 0, 0, 0) ELSE NoneV

\* the fields p of the string against format number k
StrpFields(p, k) ==
    IF Len(p) # 3 THEN NoneV
    ELSE IF k \in {1, 3}
    THEN IF FieldM(p[1]) /\ FieldD(p[2]) /\ FieldBigY(p[3])
         THEN StrpDate(CharsToInt(p[3]), CharsToInt(p[1]), DayOf(p[2])) ELSE NoneV
    ELSE IF k \in {2, 4}
    THEN IF FieldM(p[1]) /\ FieldD(p[2]) /\ FieldSmallY(p[3])
         THEN StrpDate(Century(CharsToInt(p[3])), CharsToInt(p[1]), DayOf(p[2])) ELSE NoneV
    ELSE IF FieldBigY(p[1]) /\ FieldM(p[2]) /\ FieldD(p[3])
         THEN StrpDate(CharsToInt(p[1]), CharsToInt(p[2]), DayOf(p[3])) ELSE NoneV

\* dt.datetime.strptime(cs, fmt) for fmt number k of
\* ("%m/%d/%Y", "%m/%d/%y", "%m-%d-%Y", "%m-%d-%y", "%Y/%m/%d"); NoneV where it raises
StrpTime(cs, k) == StrpFields(SplitOn(cs, IF k \in {3, 4} THEN "-" ELSE "/"), k)

\* the loop over the five formats: the first that parses wins
RECURSIVE TryFormats(_, _)
FirstParsed(got, cs, k) == IF ~IsNone(got) THEN got ELSE TryFormats(cs, k + 1)

TryFormats(cs, k) ==
    IF k > 5 THEN UNPARSEABLE_DATE ELSE FirstParsed(StrpTime(cs, k), cs, k)

SecondsPerDay == 86400

\* days since 1970-01-01 to a civil date, in steps
CivilOfMonth(yoe, era, doy, mp, secs, us) ==
    DtV(yoe + era * 400 + (IF mp >= 10 THEN 1 ELSE 0),
        IF mp < 10 THEN mp + 3 ELSE mp - 9,
        doy - (153 * mp + 2) \div 5 + 1,
        secs \div 3600, (secs % 3600) \div 60, secs % 60, us)

CivilOfDayOfYear(yoe, era, doy, secs, us) ==
    CivilOfMonth(yoe, era, doy, (5 * doy + 2) \div 153, secs, us)

CivilOfYearOfEra(yoe, era, doe, secs, us) ==
    CivilOfDayOfYear(yoe, era, doe - (365 * yoe + yoe \div 4 - yoe \div 100), secs, us)

CivilOfDayOfEra(era, doe, secs, us) ==
    CivilOfYearOfEra((doe - doe \div 1460 + doe \div 36524 - doe \div 146096) \div 365,
                     era, doe, secs, us)

CivilOfDays(z, secs, us) == CivilOfDayOfEra(z \div 146097, z % 146097, secs, us)

\* dt.datetime.utcfromtimestamp(n + tenths/10) for a time stamp >= 0
UtcFromTimestamp(n, tenths) ==
    CivilOfDays(n \div SecondsPerDay + 719468, n % SecondsPerDay, tenths * 100000)

\* ts > 1e12, written so that no intermediate exceeds 32 bits
OverMillis(n, tenths) ==
    n \div 1000000 > 1000000 \/ (n \div 1000000 = 1000000 /\ (n % 1000000 > 0 \/ tenths > 0))

\* the numeric branch: milliseconds when over 1e12, seconds otherwise
ParseEpoch(val) ==
    IF val.n < 0 THEN UNPARSEABLE_DATE
    ELSE IF OverMillis(val.n, val.f)
    THEN UtcFromTimestamp(val.n \div 1000, ((val.n % 1000) \div 100))
    ELSE UtcFromTimestamp(val.n, val.f)

\* after the YYYY-MM-DD pattern did not match: fromisoformat, then the formats
ParseOther(st, iso) == IF ~IsNone(iso) THEN iso ELSE TryFormats(st, 1)

\* the string branch on s = val.strip()
ParseStripped(st) ==
    IF st = <<>> THEN NoneV
    ELSE IF Lower(st) \in {S_bnull, S_null, S_none} THEN NoneV
    ELSE IF MatchesYMD(st)
    THEN MakeDate(CharsToInt(SubSeq(st, 1, 4)), CharsToInt(SubSeq(st, 6, 7)),
                  CharsToInt(SubSeq(st, 9, 10)))
    ELSE ParseOther(st, FromIsoFormat(ReplaceZ(st)))

parse_qb_date(val) ==
    IF IsNone(val) THEN NoneV
    ELSE IF IsStr(val) THEN ParseStripped(Strip(val.s))
    ELSE IF IsNumber(val) THEN ParseEpoch(val)
    ELSE UNPARSEABLE_DATE

\* the three outcomes of the date parser
Absent(v) == IsNone(parse_qb_date(v))
Unparseable(v) == parse_qb_date(v) = UNPARSEABLE_DATE
Present(v) == parse_qb_date(v).t = "dt"

(***************************************************************************)
(* Module-level tables of the program.                                      *)
(***************************************************************************)
MATCH_FIELD == "FDH_ID"
MDU_MATCH_FIELD == "MDU_id"

\* field id -> label
QB_FIELDS ==
    (3 :> "QB_Record_ID") @@ (12 :> "FDH Friendly Name") @@ (13 :> "FDH_ID_QB")
    @@ (14 :> "FDH Status") @@ (23 :> "City ID") @@ (24 :> "OFS Date")
    @@ (254 :> "CX Start Date") @@ (262 :> "Project Number") @@ (221 :> "CX Vendor")
    @@ (325 :> "PM")

\* Quickbase label -> ArcGIS attribute, in the order the dict is written
FIELD_MAPPING ==
    << <<"OFS Date", "OFS_Date">>, <<"CX Start Date", "CX_Date">>,
       <<"Project Number", "ProjectNum">>, <<"City ID", "City_Code">>,
       <<"CX Vendor", "Const_Ven">>, <<"FDH Status", "projectpha">>,
       <<"PM", "Market_Lead">> >>

MDU_QB_FIELDS ==
    (3 :> "QB_Record_ID") @@ (6 :> "MDU ID") @@ (13 :> "Property Name")
    @@ (14 :> "Status") @@ (37 :> "Management Company") @@ (24 :> "ROE Date")
    @@ (23 :> "ROE?") @@ (38 :> "Base MAK")

MDU_FIELD_MAPPING ==
    << <<"MDU ID", "MDU_id">>, <<"Property Name", "PropertyNam">>,
       <<"Base MAK", "BaseMAK">>, <<"ROE Date", "ROEDate">>,
       <<"ROE?", "ROESigned">>, <<"Management Company", "MgmtCompany">>,
       <<"Status", "projectpha">> >>

\* the target attribute names of a mapping
MappedFields(mapping) == {mapping[k][2] : k \in 1..Len(mapping)}

\* METRICS = defaultdict(int): every counter the program touches, at 0
MetricNames ==
    { "errors",
      "fdh_qb_rows", "fdh_arc_features", "fdh_updates_prepared", "fdh_updated_ok",
      "fdh_updated_failed", "fdh_skipped_no_id", "fdh_skipped_no_qb_match",
      "fdh_skipped_no_oid", "fdh_cx_set", "fdh_cx_cleared", "fdh_cx_unparseable",
      "fdh_ofs_set", "fdh_ofs_cleared", "fdh_ofs_unparseable",
      "fdh_cx_clear_noop_already_null", "fdh_ofs_clear_noop_already_null",
      "fdh_no_changes",
      "mdu_qb_rows", "mdu_arc_features", "mdu_updates_prepared", "mdu_updated_ok",
      "mdu_updated_failed", "mdu_no_changes" }

NoMetrics == [k \in MetricNames |-> 0]

\* METRICS[k] += by
Inc(m, k, by) == [m EXCEPT ![k] = @ + by]

\* d.get(k): None when the key is missing
Get(d, k) == IF k \in DOMAIN d THEN d[k] ELSE NoneV

\* d[k] = v
Put(d, k, v) == (k :> v) @@ d

(***************************************************************************)
(* fetch_quickbase_records: one cleaned row per record, keyed by label.     *)
(***************************************************************************)
FidOf(fields, label) == CHOOSE fid \in DOMAIN fields : fields[fid] = label

CleanRecord(rec, fields) ==
    [label \in {fields[fid] : fid \in DOMAIN fields} |->
        CleanCell(Get(rec, FidOf(fields, label)))]

RECURSIVE CleanRecords(_, _)
CleanRecords(records, fields) ==
    IF records = <<>> THEN <<>>
    ELSE <<CleanRecord(Head(records), fields)>> \o CleanRecords(Tail(records), fields)

(***************************************************************************)
(* The Quickbase lookup by business key: rows without a key are left out,   *)
(* the key is str(k).strip(), the last row with a key wins.                 *)
(***************************************************************************)
RECURSIVE BuildLookup(_, _)
\* qb_lookup[k] = r when the stripped key ks is not empty
LookupWith(before, r, ks) == IF ks # <<>> THEN Put(before, ks, r) ELSE before

LookupRow(before, r, k) ==
    IF IsNone(k) THEN before ELSE LookupWith(before, r, Strip(PyStr(k)))

BuildLookup(rows, key_label) ==
    IF rows = <<>> THEN <<>>
    ELSE LookupRow(BuildLookup(SubSeq(rows, 1, Len(rows) - 1), key_label),
                   rows[Len(rows)], Get(rows[Len(rows)], key_label))

\* qb_lookup.get(key) is a row
HasRow(lookup, key) == key \in DOMAIN lookup

(***************************************************************************)
(* update_arcgis_from_qb: the payload of one feature.                       *)
(* An accumulator [out, m] carries out_attrs and METRICS through the loop   *)
(* over the mapped fields.                                                  *)
(***************************************************************************)
IntegerTypes == {"esriFieldTypeInteger", "esriFieldTypeSmallInteger"}
FloatTypes == {"esriFieldTypeDouble", "esriFieldTypeSingle"}

\* arc_field_types.get(arc_field)
TypeOf(types, arc_field) == IF arc_field \in DOMAIN types THEN types[arc_field] ELSE "None"

\* num = coerce_number(raw): left out when None, else int(round(num)) or float(num)
PutNumber(out, arc_field, arc_type, num) ==
    IF IsNone(num) THEN out
    ELSE IF arc_type \in IntegerTypes THEN Put(out, arc_field, IntRound(num))
    ELSE Put(out, arc_field, num)

\* the branches after the date branch, the same in both update functions:
\* integers, doubles, then strings; a value that does not coerce is left out
TypedField(out, arc_field, arc_type, raw) ==
    IF arc_type \in IntegerTypes \cup FloatTypes
    THEN PutNumber(out, arc_field, arc_type, coerce_number(raw))
    ELSE IF IsNone(raw) \/ IsEmptyStr(raw) THEN out
    ELSE Put(out, arc_field, raw)

\* a variant of the date branch that clears without looking at the feature
FdhDateOutcomeAlwaysClearing(acc, arc_field, arc_before, parsed_dt) ==
    IF IsNone(parsed_dt)
    THEN [out |-> Put(acc.out, arc_field, NoneV),
          m |-> Inc(acc.m, IF arc_field = "CX_Date" THEN "fdh_cx_cleared"
                           ELSE "fdh_ofs_cleared", 1)]
    ELSE IF parsed_dt = UNPARSEABLE_DATE
    THEN [out |-> acc.out,
          m |-> Inc(acc.m, IF arc_field = "CX_Date" THEN "fdh_cx_unparseable"
                           ELSE "fdh_ofs_unparseable", 1)]
    ELSE [out |-> Put(acc.out, arc_field, parsed_dt),
          m |-> Inc(acc.m, IF arc_field = "CX_Date" THEN "fdh_cx_set"
                           ELSE "fdh_ofs_set", 1)]

\* the date branch of the FDH loop for CX_Date / OFS_Date, on
\* parsed_dt = parse_qb_date(raw_date) and arc_before = the feature's value
FdhDateOutcome(acc, arc_field, arc_before, parsed_dt) ==
    IF IsNone(parsed_dt)
    THEN IF ~InNoneEmptyZero(arc_before)
         THEN [out |-> Put(acc.out, arc_field, NoneV),
               m |-> Inc(acc.m, IF arc_field = "CX_Date" THEN "fdh_cx_cleared"
                                ELSE "fdh_ofs_cleared", 1)]
         ELSE [out |-> acc.out,
               m |-> Inc(acc.m, IF arc_field = "CX_Date"
                                THEN "fdh_cx_clear_noop_already_null"
                                ELSE "fdh_ofs_clear_noop_already_null", 1)]
    ELSE IF parsed_dt = UNPARSEABLE_DATE
    THEN [out |-> acc.out,
          m |-> Inc(acc.m, IF arc_field = "CX_Date" THEN "fdh_cx_unparseable"
                           ELSE "fdh_ofs_unparseable", 1)]
    ELSE [out |-> Put(acc.out, arc_field, parsed_dt),
          m |-> Inc(acc.m, IF arc_field = "CX_Date" THEN "fdh_cx_set"
                           ELSE "fdh_ofs_set", 1)]

FdhDateField(acc, feat, arc_field, raw_date) ==
    FdhDateOutcome(acc, arc_field, Get(feat, arc_field), parse_qb_date(raw_date))

\* one turn of `for qb_label in QB_TO_ARC_FIELDS`
FdhField(acc, feat, record, types, k) ==
    IF FIELD_MAPPING[k][2] \in {"CX_Date", "OFS_Date"}
    THEN FdhDateField(acc, feat, FIELD_MAPPING[k][2], Get(record, FIELD_MAPPING[k][1]))
    ELSE [out |-> TypedField(acc.out, FIELD_MAPPING[k][2],
                             TypeOf(types, FIELD_MAPPING[k][2]),
                             sanitize_arc_text(Get(record, FIELD_MAPPING[k][1]))),
          m |-> acc.m]

RECURSIVE FdhFields(_, _, _, _, _)
FdhFields(acc, feat, record, types, k) ==
    IF k > Len(FIELD_MAPPING) THEN acc
    ELSE FdhFields(FdhField(acc, feat, record, types, k), feat, record, types, k + 1)

\* a variant that echoes the feature's key with a blank appended
FdhInitialAttrsPadding(feat, rec_id) ==
    ("OBJECTID" :> Get(feat, "OBJECTID"))
    @@ (MATCH_FIELD :> StrV(PyStr(Get(feat, MATCH_FIELD)) \o <<" ">>))

\* out_attrs = {"OBJECTID": oid, MATCH_FIELD: rec_id}
FdhInitialAttrs(feat, rec_id) ==
    ("OBJECTID" :> Get(feat, "OBJECTID")) @@ (MATCH_FIELD :> StrV(rec_id))

\* if len(out_attrs) > 2: updates.append(...) else: fdh_no_changes
FdhKeep(acc, updates, skipped) ==
    IF Cardinality(DOMAIN acc.out) > 2
    THEN [updates |-> Append(updates, [attributes |-> acc.out]), m |-> acc.m,
          skipped |-> skipped]
    ELSE [updates |-> updates, m |-> Inc(acc.m, "fdh_no_changes", 1), skipped |-> skipped]

\* a variant that looks at the OBJECTID before it looks for the row
FdhMatchedOidFirst(feat, rec_id, qb_lookup, types, updates, m, skipped) ==
    IF IsNone(Get(feat, "OBJECTID"))
    THEN [updates |-> updates, m |-> Inc(m, "fdh_skipped_no_oid", 1),
          skipped |-> [skipped EXCEPT ![3] = @ + 1]]
    ELSE IF ~HasRow(qb_lookup, rec_id)
    THEN [updates |-> updates, m |-> Inc(m, "fdh_skipped_no_qb_match", 1),
          skipped |-> [skipped EXCEPT ![2] = @ + 1]]
    ELSE FdhKeep(FdhFields([out |-> FdhInitialAttrs(feat, rec_id), m |-> m],
                           feat, qb_lookup[rec_id], types, 1),
                 updates, skipped)

\* the turn for a feature whose stripped business key is rec_id
FdhMatched(feat, rec_id, qb_lookup, types, updates, m, skipped) ==
    IF ~HasRow(qb_lookup, rec_id)
    THEN [updates |-> updates, m |-> Inc(m, "fdh_skipped_no_qb_match", 1),
          skipped |-> [skipped EXCEPT ![2] = @ + 1]]
    ELSE IF IsNone(Get(feat, "OBJECTID"))
    THEN [updates |-> updates, m |-> Inc(m, "fdh_skipped_no_oid", 1),
          skipped |-> [skipped EXCEPT ![3] = @ + 1]]
    ELSE FdhKeep(FdhFields([out |-> FdhInitialAttrs(feat, rec_id), m |-> m],
                           feat, qb_lookup[rec_id], types, 1),
                 updates, skipped)

\* One turn of `for feat in features`: [updates, m, skipped] after the turn.
\* skipped holds the three local skip counters <<no_id, no_qb_match, no_oid>>.
FdhFeature(feat, qb_lookup, types, updates, m, skipped) ==
    IF ~Truthy(Get(feat, MATCH_FIELD))
    THEN [updates |-> updates, m |-> Inc(m, "fdh_skipped_no_id", 1),
          skipped |-> [skipped EXCEPT ![1] = @ + 1]]
    ELSE FdhMatched(feat, Strip(PyStr(Get(feat, MATCH_FIELD))), qb_lookup, types,
                    updates, m, skipped)

(***************************************************************************)
(* update_mdu_arcgis_from_qb: the payload of one feature.                   *)
(***************************************************************************)
\* a variant of the "ROE Date" branch that clears the target on a value that
\* does not parse, and counts nothing
MduDateOutcomeClearing(acc, arc_field, parsed_dt) ==
    IF IsNone(parsed_dt) \/ parsed_dt = UNPARSEABLE_DATE
    THEN [out |-> Put(acc.out, arc_field, NoneV), m |-> acc.m]
    ELSE [out |-> Put(acc.out, arc_field, parsed_dt), m |-> acc.m]

\* the branch of "ROE Date" on parsed_dt = parse_qb_date(raw)
MduDateOutcome(acc, arc_field, parsed_dt) ==
    IF IsNone(parsed_dt) THEN [out |-> Put(acc.out, arc_field, NoneV), m |-> acc.m]
    ELSE IF parsed_dt = UNPARSEABLE_DATE
    THEN [out |-> acc.out, m |-> Inc(acc.m, "errors", 1)]
    ELSE [out |-> Put(acc.out, arc_field, parsed_dt), m |-> acc.m]

\* the turn for one mapped field on raw = sanitize_arc_text(rec.get(qb_label))
MduRawField(acc, qb_label, arc_field, arc_type, raw) ==
    IF qb_label = "ROE?"
    THEN [out |-> Put(acc.out, arc_field,
                      IF qb_checkbox_value(raw) THEN StrV(<<"Y">>) ELSE StrV(<<"N">>)),
          m |-> acc.m]
    ELSE IF qb_label = "ROE Date"
    THEN MduDateOutcome(acc, arc_field, parse_qb_date(raw))
    ELSE [out |-> TypedField(acc.out, arc_field, arc_type, raw), m |-> acc.m]

\* one turn of `for qb_label, arc_field in MDU_FIELD_MAPPING.items()`
MduField(acc, record, types, k) ==
    MduRawField(acc, MDU_FIELD_MAPPING[k][1], MDU_FIELD_MAPPING[k][2],
                TypeOf(types, MDU_FIELD_MAPPING[k][2]),
                sanitize_arc_text(Get(record, MDU_FIELD_MAPPING[k][1])))

RECURSIVE MduFields(_, _, _, _)
MduFields(acc, record, types, k) ==
    IF k > Len(MDU_FIELD_MAPPING) THEN acc
    ELSE MduFields(MduField(acc, record, types, k), record, types, k + 1)

\* a variant that starts the payload from all the attributes of the feature
MduInitialAttrsCopying(feat) == feat

\* out_attrs = {"OBJECTID": oid}
MduInitialAttrs(feat) == "OBJECTID" :> Get(feat, "OBJECTID")

\* if len(out_attrs) > 1: updates.append(...) else: mdu_no_changes
MduKeep(acc, updates, skipped) ==
    IF Cardinality(DOMAIN acc.out) > 1
    THEN [updates |-> Append(updates, [attributes |-> acc.out]), m |-> acc.m,
          skipped |-> skipped]
    ELSE [updates |-> updates, m |-> Inc(acc.m, "mdu_no_changes", 1), skipped |-> skipped]

\* the turn for a feature whose stripped business key is mdu_id
MduMatched(feat, mdu_id, qb_lookup, types, updates, m, skipped) ==
    IF ~HasRow(qb_lookup, mdu_id)
    THEN [updates |-> updates, m |-> m, skipped |-> [skipped EXCEPT ![2] = @ + 1]]
    ELSE MduKeep(MduFields([out |-> MduInitialAttrs(feat), m |-> m],
                           qb_lookup[mdu_id], types, 1),
                 updates, skipped)

\* One turn of `for feat in features`.  The local skip counters are
\* <<(unused), skipped_no_match, skipped_no_oid>>.
MduFeature(feat, qb_lookup, types, updates, m, skipped) ==
    IF IsNone(Get(feat, "OBJECTID"))
    THEN [updates |-> updates, m |-> m, skipped |-> [skipped EXCEPT ![3] = @ + 1]]
    ELSE IF ~Truthy(Get(feat, MDU_MATCH_FIELD))
    THEN [updates |-> updates, m |-> m, skipped |-> [skipped EXCEPT ![2] = @ + 1]]
    ELSE MduMatched(feat, Strip(PyStr(Get(feat, MDU_MATCH_FIELD))), qb_lookup, types,
                    updates, m, skipped)

(***************************************************************************)
(* Sample data: Quickbase records as the REST API returns them (field id    *)
(* -> value) and ArcGIS features (attribute name -> value).                 *)
(***************************************************************************)
K_A1 == <<"A", "1">>
K_B2 == <<"B", "2">>
K_C3 == <<"C", "3">>
K_A1_padded == <<" ", "A", "1", " ">>
D_iso == <<"2", "0", "2", "4", "-", "0", "1", "-", "1", "0">>
D_feb30 == <<"2", "0", "2", "4", "-", "0", "2", "-", "3", "0">>
D_us == <<"0", "1", "/", "0", "2", "/", "2", "0", "2", "4">>
D_stamp == D_iso \o <<"T", "0", "8", ":", "3", "0", ":", "0", "0", "Z">>
D_junk == <<"n", "o", "p", "e">>
T_acme == <<"A", "c", "m", "e">>
T_tag == <<"<", "N", "u", "l", "l", ">">>
T_12 == <<"1", "2">>
T_2_5 == <<"2", ".", "5">>
T_yes == <<"Y", "e", "s">>

\* a date attribute as ArcGIS returns it: a number of milliseconds
ArcDate == IntV(86400000)

FdhRecord(key, ofs, cx, pn, city, vendor) ==
    (3 :> IntV(1)) @@ (13 :> key) @@ (24 :> ofs) @@ (254 :> cx) @@ (262 :> pn)
    @@ (23 :> city) @@ (221 :> vendor) @@ (14 :> StrV(<<"O", "F", "S">>))

MduRecord(key, name, roe_date, roe, mak) ==
    (3 :> IntV(1)) @@ (6 :> key) @@ (13 :> name) @@ (24 :> roe_date) @@ (23 :> roe)
    @@ (38 :> mak) @@ (14 :> StrV(<<"O", "F", "S">>))

FdhFeat(oid, key, ofs, cx) ==
    ("OBJECTID" :> oid) @@ ("FDH_ID" :> key) @@ ("OFS_Date" :> ofs) @@ ("CX_Date" :> cx)
    @@ ("MR_Ven" :> StrV(T_acme)) @@ ("ProjectNum" :> NoneV)

MduFeat(oid, key, roe_date) ==
    ("OBJECTID" :> oid) @@ ("MDU_id" :> key) @@ ("ROEDate" :> roe_date)
    @@ ("Owner" :> StrV(T_acme)) @@ ("ROESigned" :> StrV(<<"N">>))

\* layer.properties.fields as name -> type
FdhTextSchema ==
    [ProjectNum |-> "esriFieldTypeString", City_Code |-> "esriFieldTypeString",
     OFS_Date |-> "esriFieldTypeDate"]
FdhNumberSchema ==
    [ProjectNum |-> "esriFieldTypeInteger", City_Code |-> "esriFieldTypeDouble",
     OFS_Date |-> "esriFieldTypeDate"]
FdhLayerTypes == {FdhTextSchema, FdhNumberSchema}

MduTextSchema == [BaseMAK |-> "esriFieldTypeString", ROEDate |-> "esriFieldTypeDate"]
MduNumberSchema == [BaseMAK |-> "esriFieldTypeSmallInteger", ROEDate |-> "esriFieldTypeDate"]
MduLayerTypes == {MduTextSchema, MduNumberSchema}

\* The tables and layers of a whole run: the first n entries of these.
FdhTableRecord(i) ==
    CASE i % 3 = 1 -> FdhRecord(StrV(K_A1_padded), StrV(D_iso), NoneV, StrV(T_12),
                                StrV(T_2_5), StrV(T_acme))
      [] i % 3 = 2 -> FdhRecord(StrV(K_B2), StrV(D_junk), StrV(D_us),
                                ListV(<<StrV(T_12), StrV(T_acme)>>), IntV(7), StrV(T_tag))
      [] OTHER -> FdhRecord(StrV(K_A1), NoneV, StrV(D_feb30), FloatV(3, 5), NoneV, StrV(<<>>))

FdhLayerFeature(j) ==
    CASE j % 4 = 1 -> FdhFeat(IntV(j), StrV(K_A1), NoneV, ArcDate)
      [] j % 4 = 2 -> FdhFeat(IntV(j), StrV(K_A1), ArcDate, IntV(0))
      [] j % 4 = 3 -> FdhFeat(IntV(j), StrV(K_A1), ArcDate, StrV(<<>>))
      [] OTHER -> FdhFeat(IntV(j), StrV(K_C3), NoneV, NoneV)

MduTableRecord(i) ==
    CASE i % 3 = 1 -> MduRecord(IntV(12), StrV(T_acme), StrV(D_stamp), BoolV(TRUE), StrV(T_12))
      [] i % 3 = 2 -> MduRecord(StrV(K_B2), StrV(T_tag), StrV(D_junk), StrV(T_yes), NoneV)
      [] OTHER -> MduRecord(StrV(T_12), NoneV, NoneV, NoneV, StrV(T_2_5))

MduLayerFeature(j) ==
    CASE j % 4 = 0 -> MduFeat(IntV(j), StrV(K_B2), NoneV)
      [] j % 4 = 1 -> MduFeat(IntV(j), StrV(T_12), ArcDate)
      [] OTHER -> MduFeat(IntV(j), StrV(T_12), NoneV)

\* the first n records of a table, the first n features of a layer
RECURSIVE FdhTable(_)
FdhTable(n) == IF n = 0 THEN <<>> ELSE Append(FdhTable(n - 1), FdhTableRecord(n))
RECURSIVE FdhLayer(_)
FdhLayer(n) == IF n = 0 THEN <<>> ELSE Append(FdhLayer(n - 1), FdhLayerFeature(n))
RECURSIVE MduTable(_)
MduTable(n) == IF n = 0 THEN <<>> ELSE Append(MduTable(n - 1), MduTableRecord(n))
RECURSIVE MduLayer(_)
MduLayer(n) == IF n = 0 THEN <<>> ELSE Append(MduLayer(n - 1), MduLayerFeature(n))

\* the layer the portal item holds: its schema and its n features
NoLayer == [fields |-> <<>>, content |-> <<>>]
FdhHosted(n) ==
    [fields |-> IF n % 2 = 1 THEN FdhNumberSchema ELSE FdhTextSchema, content |-> FdhLayer(n)]
MduHosted(n) ==
    [fields |-> IF n % 2 = 1 THEN MduNumberSchema ELSE MduTextSchema, content |-> MduLayer(n)]

(***************************************************************************)
(* The ArcGIS side of a query: the features of the layer whose match field  *)
(* is one of the quoted ids.  The model never has more than chunk_size      *)
(* (250) ids, so chunked_arc_query issues one query, or none for no ids.    *)
(***************************************************************************)
\* sorted(set(str(r.get(key)).strip() for r in qb_rows if r.get(key)))
RECURSIVE QbIds(_, _)
QbIds(rows, key_label) ==
    IF rows = <<>> THEN {}
    ELSE QbIds(Tail(rows), key_label)
         \cup (IF Truthy(Get(Head(rows), key_label))
               THEN {Strip(PyStr(Get(Head(rows), key_label)))} ELSE {})

RECURSIVE WhereIn(_, _, _)
WhereIn(content, match_field, ids) ==
    IF content = <<>> THEN <<>>
    ELSE (IF IsStr(Get(Head(content), match_field)) /\ Get(Head(content), match_field).s \in ids
          THEN <<Head(content)>> ELSE <<>>)
         \o WhereIn(Tail(content), match_field, ids)

chunked_arc_query(content, match_field, ids) ==
    IF ids = {} THEN <<>> ELSE WhereIn(content, match_field, ids)

\* the values --fdh-ids takes in the model: not given, or two ids
FdhIdsChoices == { {}, {K_A1, K_C3} }

(***************************************************************************)
(* State.                                                                   *)
(***************************************************************************)
VARIABLES
    pc,          \* where the run is
    dry_run,     \* args.dry_run
    batch_size,  \* args.batch_size
    METRICS,     \* the global counters
    qb_rows,     \* the cleaned rows of the running sync
    layer,       \* the layer of the running sync: its field types and features
    features,    \* the features the running sync queried
    idx,         \* the feature the reconciliation loop is at (1-based)
    updates,     \* the payloads prepared so far
    skipped,     \* the local skip counters of the update function
    bi,          \* i of `for i in range(0, len(updates), batch_size)`
    si,          \* position in the chunk of the one-by-one fallback
    calls,       \* the edit_features calls the running sync's layer received, each
                 \* with the updates sent, whether it raised, and the number of
                 \* results its response reported
    result,      \* how run_fdh_sync / run_mdu_sync ended, per dataset
    summaries,   \* the statuses of the PAD summaries emitted
    pass         \* 1, or 2 when the rows are reconciled a second time

args == <<dry_run, batch_size>>
locals == <<qb_rows, layer, features, idx, updates, skipped, bi, si, calls>>
vars == <<pc, dry_run, batch_size, METRICS, qb_rows, layer, features, idx,
          updates, skipped, bi, si, calls, result, summaries, pass>>

NoLocals ==
    /\ qb_rows' = <<>> /\ layer' = NoLayer /\ features' = <<>> /\ idx' = 1
    /\ updates' = <<>> /\ skipped' = <<0, 0, 0>> /\ bi' = 0 /\ si' = 1 /\ calls' = <<>>

\* the state main() is in once the arguments are parsed and get_gis returned
Init ==
    /\ pc = "fdh_fetch"
    /\ dry_run \in BOOLEAN
    /\ batch_size \in 1..MaxBatch
    /\ METRICS = NoMetrics
    /\ qb_rows = <<>> /\ layer = NoLayer /\ features = <<>> /\ idx = 1
    /\ updates = <<>> /\ skipped = <<0, 0, 0>> /\ bi = 0 /\ si = 1 /\ calls = <<>>
    /\ result = [fdh |-> "pending", mdu |-> "pending"]
    /\ summaries = <<>>
    /\ pass = 1

\* an exception leaves run_fdh_sync: main logs it and goes on to the MDU sync
FdhCrashes ==
    /\ pc' = "mdu_fetch"
    /\ result' = [result EXCEPT !.fdh = "raised"]
    /\ NoLocals
    /\ UNCHANGED <<args, summaries, pass>>

\* SystemExit is no subclass of Exception: neither `except Exception` of main
\* catches it, and the interpreter exits
SystemExits(ds) ==
    /\ pc' = "exit"
    /\ result' = [result EXCEPT ![ds] = "exit"]
    /\ NoLocals
    /\ UNCHANGED <<args, METRICS, summaries, pass>>

\* an exception leaves run_mdu_sync: main logs it and re-raises
MduCrashes ==
    /\ pc' = "crashed"
    /\ result' = [result EXCEPT !.mdu = "raised"]
    /\ NoLocals
    /\ UNCHANGED <<args, summaries, pass>>

(***************************************************************************)
(* run_fdh_sync.                                                            *)
(***************************************************************************)
\* fetch_quickbase_records returns the cleaned rows, or requests raises
FdhFetch ==
    /\ pc = "fdh_fetch"
    /\ \/ /\ FdhCrashes
          /\ UNCHANGED METRICS
       \/ \E n \in 0..MaxRows :
            /\ qb_rows' = CleanRecords(FdhTable(n), QB_FIELDS)
            /\ METRICS' = [METRICS EXCEPT !["fdh_qb_rows"] = n]
            /\ pc' = "fdh_item"
            /\ UNCHANGED <<args, layer, features, idx, updates, skipped, bi, si, calls,
                           result, summaries, pass>>

\* gis.content.get(LAYER_ITEM_ID), then item.layers[0]
FdhGetItem ==
    /\ pc = "fdh_item"
    /\ \/ /\ FdhCrashes
          /\ UNCHANGED METRICS
       \/ SystemExits("fdh")
       \/ \E n \in 0..MaxFeats :
            /\ layer' = FdhHosted(n)
            /\ pc' = "fdh_query"
            /\ UNCHANGED <<args, METRICS, qb_rows, features, idx, updates, skipped, bi, si,
                           calls, result, summaries, pass>>

\* a variant that forgets the dry-run return and always enters the update function
QueriedIgnoringDryRun(found, metric, return, reconcile) ==
    /\ METRICS' = [METRICS EXCEPT ![metric] = Len(found)]
    /\ pc' = reconcile
    /\ features' = found
    /\ idx' = 1
    /\ UNCHANGED <<args, qb_rows, layer, updates, skipped, bi, si, calls, result,
                   summaries, pass>>

\* the features found are counted; a dry run returns here, otherwise the
\* update function is entered
Queried(found, metric, return, reconcile) ==
    /\ METRICS' = [METRICS EXCEPT ![metric] = Len(found)]
    /\ pc' = IF dry_run THEN return ELSE reconcile
    /\ features' = found
    /\ idx' = 1
    /\ UNCHANGED <<args, qb_rows, layer, updates, skipped, bi, si, calls, result,
                   summaries, pass>>

\* the features of the --fdh-ids override (args.fdh_ids is read here and
\* nowhere else) or of the chunked query, then the dry-run return
FdhQuery ==
    /\ pc = "fdh_query"
    /\ \E fdh_ids \in FdhIdsChoices :
        \/ /\ fdh_ids # {} \/ QbIds(qb_rows, "FDH_ID_QB") # {}
           /\ FdhCrashes
           /\ UNCHANGED METRICS
        \/ Queried(IF fdh_ids # {} THEN WhereIn(layer.content, MATCH_FIELD, fdh_ids)
                   ELSE chunked_arc_query(layer.content, MATCH_FIELD,
                                          QbIds(qb_rows, "FDH_ID_QB")),
                   "fdh_arc_features", "fdh_return", "fdh_reconcile")

(***************************************************************************)
(* update_arcgis_from_qb.                                                   *)
(***************************************************************************)
\* the loop over the features moves on with the outcome of a turn
Turned(after) ==
    /\ updates' = after.updates
    /\ METRICS' = after.m
    /\ skipped' = after.skipped
    /\ idx' = idx + 1
    /\ UNCHANGED <<pc, args, qb_rows, layer, features, bi, si, calls, result, summaries, pass>>

\* one turn of the loop over the features
FdhReconcile ==
    /\ pc = "fdh_reconcile"
    /\ idx <= Len(features)
    /\ Turned(FdhFeature(features[idx], BuildLookup(qb_rows, "FDH_ID_QB"), layer.fields,
                         updates, [METRICS EXCEPT !["fdh_arc_features"] = Len(features)],
                         skipped))

\* after the loop: the count of prepared updates, and the return when none
FdhPrepared ==
    /\ pc = "fdh_reconcile"
    /\ idx > Len(features)
    /\ METRICS' = [METRICS EXCEPT !["fdh_arc_features"] = Len(features),
                                  !["fdh_updates_prepared"] = Len(updates)]
    /\ pc' = IF updates = <<>> THEN "fdh_return" ELSE "fdh_apply"
    /\ bi' = 0
    /\ UNCHANGED <<args, qb_rows, layer, features, idx, updates, skipped, si, calls, result,
                   summaries, pass>>

\* The number of entries of "updateResults" in the response to a call with k
\* updates: one per update, or fewer (down to an empty or missing response).
ResultCounts(k) == 0..k

\* updates[i:i + batch_size]
Chunk(i) ==
    SubSeq(updates, i + 1, IF i + batch_size < Len(updates) THEN i + batch_size
                           ELSE Len(updates))

\* the next value of pc and bi when the turn of the batch loop at bi ends
NextBatch(apply, return) ==
    /\ bi' = bi + batch_size
    /\ pc' = IF bi + batch_size < Len(updates) THEN apply ELSE return

\* layer.edit_features(updates=chunk): the response reports r results of
\* which ok succeeded, or the call raises and the fallback starts
FdhBatch ==
    /\ pc = "fdh_apply"
    /\ bi < Len(updates)
    /\ \/ \E r \in ResultCounts(Len(Chunk(bi))) : \E ok \in 0..r :
            /\ calls' = Append(calls, [kind |-> "bulk", updates |-> Chunk(bi), raised |-> FALSE,
                                       results |-> r])
            /\ METRICS' = Inc(Inc(Inc(METRICS, "fdh_updated_ok", ok),
                                  "fdh_updated_failed", r - ok), "errors", r - ok)
            /\ NextBatch("fdh_apply", "fdh_return")
            /\ si' = 1
       \/ /\ calls' = Append(calls, [kind |-> "bulk", updates |-> Chunk(bi), raised |-> TRUE,
                                     results |-> 0])
          /\ METRICS' = Inc(Inc(METRICS, "fdh_updated_failed", Len(Chunk(bi))),
                            "errors", Len(Chunk(bi)))
          /\ pc' = "fdh_single"
          /\ si' = 1
          /\ bi' = bi
    /\ UNCHANGED <<args, qb_rows, layer, features, idx, updates, skipped, result, summaries,
                   pass>>

\* a variant of the fallback that retries only the first payload of the batch
NextSingleOnce(single, apply, return) ==
    si' = 1 /\ NextBatch(apply, return)

\* the next value of si, bi and pc when a turn of the fallback loop ends
NextSingle(single, apply, return) ==
    IF si < Len(Chunk(bi))
    THEN si' = si + 1 /\ bi' = bi /\ pc' = single
    ELSE si' = 1 /\ NextBatch(apply, return)

\* a variant of the fallback without its try/except: a singleton call that
\* raises ends the update function
FdhSingleAborting ==
    /\ pc = "fdh_single"
    /\ \/ /\ \E r \in ResultCounts(1) :
                calls' = Append(calls, [kind |-> "single", updates |-> <<Chunk(bi)[si]>>,
                                        raised |-> FALSE, results |-> r])
          /\ NextSingle("fdh_single", "fdh_apply", "fdh_return")
          /\ UNCHANGED <<args, METRICS, qb_rows, layer, features, idx, updates, skipped,
                         result, summaries, pass>>
       \/ /\ FdhCrashes
          /\ UNCHANGED METRICS

\* layer.edit_features(updates=[upd]) of the fallback: its response is not
\* read; when it raises the failure is counted and the loop goes on
FdhSingle ==
    /\ pc = "fdh_single"
    /\ \/ /\ \E r \in ResultCounts(1) :
                calls' = Append(calls, [kind |-> "single", updates |-> <<Chunk(bi)[si]>>,
                                        raised |-> FALSE, results |-> r])
          /\ UNCHANGED METRICS
       \/ /\ calls' = Append(calls, [kind |-> "single", updates |-> <<Chunk(bi)[si]>>,
                                     raised |-> TRUE,
                                     results |-> 0])
          /\ METRICS' = Inc(Inc(METRICS, "fdh_updated_failed", 1), "errors", 1)
    /\ NextSingle("fdh_single", "fdh_apply", "fdh_return")
    /\ UNCHANGED <<args, qb_rows, layer, features, idx, updates, skipped, result, summaries,
                   pass>>

\* run_fdh_sync returns to main, which starts the MDU sync
FdhReturn ==
    /\ pc = "fdh_return"
    /\ pc' = "mdu_fetch"
    /\ result' = [result EXCEPT !.fdh = "returned"]
    /\ NoLocals
    /\ UNCHANGED <<args, METRICS, summaries, pass>>

(***************************************************************************)
(* run_mdu_sync.                                                            *)
(***************************************************************************)
MduFetch ==
    /\ pc = "mdu_fetch"
    /\ \/ /\ MduCrashes
          /\ UNCHANGED METRICS
       \/ \E n \in 0..MaxRows :
            /\ qb_rows' = CleanRecords(MduTable(n), MDU_QB_FIELDS)
            /\ METRICS' = [METRICS EXCEPT !["mdu_qb_rows"] = n]
            /\ pc' = "mdu_item"
            /\ UNCHANGED <<args, layer, features, idx, updates, skipped, bi, si, calls,
                           result, summaries, pass>>

MduGetItem ==
    /\ pc = "mdu_item"
    /\ \/ /\ MduCrashes
          /\ UNCHANGED METRICS
       \/ SystemExits("mdu")
       \/ \E n \in 0..MaxFeats :
            /\ layer' = MduHosted(n)
            /\ pc' = "mdu_query"
            /\ UNCHANGED <<args, METRICS, qb_rows, features, idx, updates, skipped, bi, si,
                           calls, result, summaries, pass>>

MduQuery ==
    /\ pc = "mdu_query"
    /\ \/ /\ QbIds(qb_rows, "MDU ID") # {}
          /\ MduCrashes
          /\ UNCHANGED METRICS
       \/ Queried(chunked_arc_query(layer.content, MDU_MATCH_FIELD, QbIds(qb_rows, "MDU ID")),
                  "mdu_arc_features", "mdu_return", "mdu_reconcile")

(***************************************************************************)
(* update_mdu_arcgis_from_qb.                                               *)
(***************************************************************************)
MduReconcile ==
    /\ pc = "mdu_reconcile"
    /\ idx <= Len(features)
    /\ Turned(MduFeature(features[idx], BuildLookup(qb_rows, "MDU ID"), layer.fields,
                         updates, METRICS, skipped))

MduPrepared ==
    /\ pc = "mdu_reconcile"
    /\ idx > Len(features)
    /\ METRICS' = [METRICS EXCEPT !["mdu_updates_prepared"] = Len(updates)]
    /\ pc' = IF updates = <<>> THEN "mdu_return" ELSE "mdu_apply"
    /\ bi' = 0
    /\ UNCHANGED <<args, qb_rows, layer, features, idx, updates, skipped, si, calls, result,
                   summaries, pass>>

\* apply_updates: the tallies of a response with r results of which ok succeeded
ApplyUpdatesTally(m, r, ok) ==
    Inc(Inc(Inc(m, "mdu_updated_ok", ok), "mdu_updated_failed", r - ok), "errors", r - ok)

\* apply_updates(layer, chunk): tallied on return; when the call raises only
\* a log line is written and the fallback starts
MduBatch ==
    /\ pc = "mdu_apply"
    /\ bi < Len(updates)
    /\ \/ \E r \in ResultCounts(Len(Chunk(bi))) : \E ok \in 0..r :
            /\ calls' = Append(calls, [kind |-> "bulk", updates |-> Chunk(bi), raised |-> FALSE,
                                       results |-> r])
            /\ METRICS' = ApplyUpdatesTally(METRICS, r, ok)
            /\ NextBatch("mdu_apply", "mdu_return")
            /\ si' = 1
       \/ /\ calls' = Append(calls, [kind |-> "bulk", updates |-> Chunk(bi), raised |-> TRUE,
                                     results |-> 0])
          /\ UNCHANGED METRICS
          /\ pc' = "mdu_single"
          /\ si' = 1
          /\ bi' = bi
    /\ UNCHANGED <<args, qb_rows, layer, features, idx, updates, skipped, result, summaries,
                   pass>>

\* apply_updates(layer, [u]) of the fallback
MduSingle ==
    /\ pc = "mdu_single"
    /\ \/ \E r \in ResultCounts(1) : \E ok \in 0..r :
            /\ calls' = Append(calls, [kind |-> "single", updates |-> <<Chunk(bi)[si]>>,
                                       raised |-> FALSE,
                                       results |-> r])
            /\ METRICS' = ApplyUpdatesTally(METRICS, r, ok)
       \/ /\ calls' = Append(calls, [kind |-> "single", updates |-> <<Chunk(bi)[si]>>,
                                     raised |-> TRUE,
                                     results |-> 0])
          /\ UNCHANGED METRICS
    /\ NextSingle("mdu_single", "mdu_apply", "mdu_return")
    /\ UNCHANGED <<args, qb_rows, layer, features, idx, updates, skipped, result, summaries,
                   pass>>

\* run_mdu_sync returns to main
MduReturn ==
    /\ pc = "mdu_return"
    /\ pc' = "summary"
    /\ result' = [result EXCEPT !.mdu = "returned"]
    /\ NoLocals
    /\ UNCHANGED <<args, METRICS, summaries, pass>>

(***************************************************************************)
(* main: metrics_end() and emit_pad_summary().                              *)
(***************************************************************************)
SummaryStatus(m) == IF m["errors"] = 0 THEN "OK" ELSE "WARN"

emit_pad_summary ==
    /\ pc = "summary"
    /\ summaries' = Append(summaries, SummaryStatus(METRICS))
    /\ pc' = "done"
    /\ UNCHANGED <<args, METRICS, locals, result, pass>>

\* the process has ended: normally, by SystemExit, or by the re-raised exception
Terminated == pc \in {"done", "exit", "crashed"}

(***************************************************************************)
(* The update executor (batch loop and one-by-one fallback), the dry run,   *)
(* and the orchestration of main.                                           *)
(***************************************************************************)
ReturnPcs == {"fdh_return", "mdu_return"}
ExecutorPcs == {"fdh_apply", "fdh_single", "mdu_apply", "mdu_single"}

\* ceil(n / b) for b >= 1
Ceil(n, b) == (n + b - 1) \div b

\* the k-th slice of the payload list, k = 1, 2, ...
Slice(k) ==
    SubSeq(updates, (k - 1) * batch_size + 1,
           IF k * batch_size < Len(updates) THEN k * batch_size ELSE Len(updates))

\* the calls after position p are singleton calls for the payloads of chunk, in order
SinglesAt(p, chunk) ==
    /\ p + Len(chunk) <= Len(calls)
    /\ \A j \in 1..Len(chunk) :
         calls[p + j].kind = "single" /\ calls[p + j].updates = <<chunk[j]>>

\* from position p on, the log of calls is: the bulk call of slice k, its
\* singleton calls when it raised and none otherwise, then slice k + 1, ...
\* up to the last slice
RECURSIVE CallsFrom(_, _)
BatchAt(p, k, chunk) ==
    /\ chunk # <<>>
    /\ calls[p].kind = "bulk"
    /\ calls[p].updates = chunk
    /\ calls[p].raised => SinglesAt(p, chunk)
    /\ CallsFrom(p + 1 + (IF calls[p].raised THEN Len(chunk) ELSE 0), k + 1)

CallsFrom(p, k) ==
    IF p > Len(calls) THEN k = Ceil(Len(updates), batch_size) + 1
    ELSE BatchAt(p, k, Slice(k))

\* C5: when the update function of either dataset returns, the calls it made
\* are exactly ceil(N/B) bulk calls over the contiguous slices of the payload
\* list in order, each bulk call that raised followed at once by exactly one
\* singleton call per payload of its slice, in order, and each bulk call that
\* did not raise followed by no singleton call.
BatchPartitioning == pc \in ReturnPcs => CallsFrom(1, 1)

\* C5 witness: three payloads in batches of two, the first bulk call raised
\* and was retried by two singleton calls, the second bulk call went through.
BatchPartitioningWitness ==
    /\ pc \in ReturnPcs
    /\ Len(updates) = 3 /\ batch_size = 2
    /\ Len(calls) = 4
    /\ calls[1].raised /\ ~calls[4].raised /\ calls[4].kind = "bulk"

\* C6: in a dry run no edit_features call, bulk or singleton, is ever issued.
DryRunNoEdits == dry_run => calls = <<>>

\* C6 witness: a dry run that fetched rows and found features for both
\* datasets has reached the end of the MDU sync.
DryRunWitness ==
    /\ dry_run
    /\ pc = "mdu_return"
    /\ features # <<>>
    /\ METRICS["fdh_arc_features"] > 0 /\ METRICS["fdh_qb_rows"] > 0

\* every payload is in some call, and every slice is the subject of a bulk call
AllSubmitted ==
    /\ \A i \in 1..Len(updates) :
         \E c \in 1..Len(calls) : \E j \in 1..Len(calls[c].updates) :
            calls[c].updates[j] = updates[i]
    /\ \A k \in 1..Ceil(Len(updates), batch_size) :
         \E c \in 1..Len(calls) : calls[c].kind = "bulk" /\ calls[c].updates = Slice(k)

\* a step taken inside the executor stays in it or returns with all submitted
ExecutorGoesOn ==
    pc \in ExecutorPcs =>
        /\ pc' \in ExecutorPcs \cup ReturnPcs
        /\ pc' \in ReturnPcs => AllSubmitted'

\* C10: whichever update calls raise, a step of the executor leads to the
\* executor again or to the return of the update function (never out of it
\* by an exception), and at the return every payload has been submitted in at
\* least one call and every batch has been submitted.
UpdateFailuresNeverStop == [][ExecutorGoesOn]_vars

\* C10 witness: a singleton call raised, and a later batch was still submitted
\* before the update function returned.
UpdateFailuresWitness ==
    /\ pc \in ReturnPcs
    /\ Len(calls) >= 3
    /\ calls[1].raised /\ calls[2].kind = "single" /\ calls[2].raised
    /\ calls[Len(calls)].kind = "bulk"

\* C7 (as claimed): whenever the FDH sync ended by an exception, whatever the
\* step, the MDU sync was started afterwards; and an MDU sync that ended by an
\* exception ends the run with that failure.
FdhFailureIsolated ==
    /\ (Terminated /\ result.fdh \in {"raised", "exit"}) => result.mdu # "pending"
    /\ result.mdu = "raised" => pc = "crashed"

\* C8 (as claimed): when the FDH layer item is not found, the FDH sync is
\* abandoned and the MDU sync still runs in the same invocation.
MissingFdhItemIsolated ==
    (Terminated /\ result.fdh = "exit") => result.mdu \in {"returned", "raised", "exit"}

\* C9 (as claimed): a run that has ended has emitted the summary exactly once,
\* with status OK when errors = 0 and WARN otherwise.
SummaryOnce ==
    Terminated => summaries = <<SummaryStatus(METRICS)>>


Next ==
    \/ FdhFetch \/ FdhGetItem \/ FdhQuery
    \/ FdhReconcile \/ FdhPrepared \/ FdhBatch \/ FdhSingle \/ FdhReturn
    \/ MduFetch \/ MduGetItem \/ MduQuery
    \/ MduReconcile \/ MduPrepared \/ MduBatch \/ MduSingle \/ MduReturn
    \/ emit_pad_summary

Spec == Init /\ [][Next]_vars

(***************************************************************************)
(* The two update functions on their own: update_arcgis_from_qb or          *)
(* update_mdu_arcgis_from_qb is entered with cleaned rows, a schema and     *)
(* features drawn from the pools below, builds its payloads, and the store   *)
(* then applies all of them before the same rows are reconciled again.      *)
(***************************************************************************)
MaxReconRows == 2
MaxReconFeats == 2

\* a record whose fields other than the key are all empty
FdhEmptyRecord(key) ==
    (3 :> IntV(2)) @@ (13 :> key) @@ (24 :> StrV(<<>>)) @@ (254 :> StrV(S_null))
    @@ (262 :> NoneV) @@ (23 :> ListV(<<>>)) @@ (221 :> StrV(T_tag)) @@ (14 :> NoneV)

FdhRowPool ==
    { FdhTableRecord(1), FdhTableRecord(2), FdhTableRecord(3), FdhEmptyRecord(StrV(K_B2)) }

\* the features of a layer, in the order a query returns them
FdhFeaturePool ==
    << FdhFeat(IntV(1), StrV(K_A1), NoneV, ArcDate),
       FdhFeat(IntV(2), StrV(K_A1_padded), ArcDate, IntV(0)),
       FdhFeat(IntV(3), StrV(K_B2), StrV(<<>>), NoneV),
       FdhFeat(IntV(4), StrV(K_B2), ArcDate, ArcDate),
       FdhFeat(NoneV, StrV(K_A1), NoneV, NoneV),
       FdhFeat(IntV(6), NoneV, ArcDate, ArcDate) >>

MduRowPool ==
    { MduTableRecord(1), MduTableRecord(2), MduTableRecord(3),
      MduRecord(NoneV, StrV(T_acme), StrV(D_iso), IntV(1), IntV(7)) }

MduFeaturePool ==
    << MduFeat(IntV(1), StrV(T_12), ArcDate),
       MduFeat(IntV(2), StrV(K_B2), NoneV),
       MduFeat(IntV(3), StrV(K_B2), ArcDate),
       MduFeat(NoneV, StrV(T_12), NoneV),
       MduFeat(IntV(5), NoneV, ArcDate),
       MduFeat(IntV(6), StrV(K_C3), NoneV) >>

\* the sequences of at most n elements of pool
SeqsUpTo(pool, n) == UNION {[1..k -> pool] : k \in 0..n}

\* the elements of the sequence pool at the positions in chosen, in order
RECURSIVE Picked(_, _, _)
Picked(pool, chosen, i) ==
    IF i > Len(pool) THEN <<>>
    ELSE (IF i \in chosen THEN <<pool[i]>> ELSE <<>>) \o Picked(pool, chosen, i + 1)

\* the query results of at most n features: a layer holds a feature once
FeaturesUpTo(pool, n) ==
    {Picked(pool, chosen, 1) : chosen \in {c \in SUBSET (1..Len(pool)) : Cardinality(c) <= n}}

\* the update function of dataset ds is entered
Entered(ds, rows, fields, schema, feats) ==
    /\ pc = ds \o "_reconcile"
    /\ qb_rows = CleanRecords(rows, fields)
    /\ layer = [fields |-> schema, content |-> feats]
    /\ features = feats

InitRecon ==
    /\ \/ \E rows \in SeqsUpTo(FdhRowPool, MaxReconRows) :
          \E feats \in FeaturesUpTo(FdhFeaturePool, MaxReconFeats) :
          \E schema \in FdhLayerTypes :
             Entered("fdh", rows, QB_FIELDS, schema, feats)
       \/ \E rows \in SeqsUpTo(MduRowPool, MaxReconRows) :
          \E feats \in FeaturesUpTo(MduFeaturePool, MaxReconFeats) :
          \E schema \in MduLayerTypes :
             Entered("mdu", rows, MDU_QB_FIELDS, schema, feats)
    /\ dry_run = FALSE
    /\ batch_size = 1
    /\ METRICS = NoMetrics
    /\ idx = 1 /\ updates = <<>> /\ skipped = <<0, 0, 0>> /\ bi = 0 /\ si = 1
    /\ calls = <<>>
    /\ result = [fdh |-> "pending", mdu |-> "pending"]
    /\ summaries = <<>>
    /\ pass = 1

\* the attributes of feat after the store applied the payload list to it:
\* each payload sets the attributes it names on the feature of its OBJECTID
RECURSIVE ApplyPayloads(_, _)
ApplyPayloads(feat, payloads) ==
    IF payloads = <<>> THEN feat
    ELSE ApplyPayloads(IF Head(payloads).attributes["OBJECTID"] = Get(feat, "OBJECTID")
                       THEN Head(payloads).attributes @@ feat ELSE feat,
                       Tail(payloads))

\* the payload list is complete (pc left the loop); every payload is applied,
\* and the update function is entered again with the same rows and the
\* features as they now are
StoreApplies ==
    /\ pass = 1
    /\ pc \in {"fdh_apply", "fdh_return", "mdu_apply", "mdu_return"}
    /\ features' = [i \in 1..Len(features) |-> ApplyPayloads(features[i], updates)]
    /\ pc' = IF pc \in {"fdh_apply", "fdh_return"} THEN "fdh_reconcile" ELSE "mdu_reconcile"
    /\ pass' = 2
    /\ METRICS' = NoMetrics
    /\ idx' = 1 /\ updates' = <<>> /\ skipped' = <<0, 0, 0>> /\ bi' = 0
    /\ UNCHANGED <<args, qb_rows, layer, si, calls, result, summaries>>

NextRecon ==
    \/ FdhReconcile \/ FdhPrepared
    \/ MduReconcile \/ MduPrepared
    \/ StoreApplies

SpecRecon == InitRecon /\ [][NextRecon]_vars

(***************************************************************************)
(* Properties of the payloads.                                              *)
(***************************************************************************)
FdhPcs == {"fdh_reconcile", "fdh_apply", "fdh_single", "fdh_return"}
MduPcs == {"mdu_reconcile", "mdu_apply", "mdu_single", "mdu_return"}

\* the loop over the features is over and the payload list is complete
LoopDone == pc \in {"fdh_apply", "fdh_return", "mdu_apply", "mdu_return"}

\* the feature has an OBJECTID, a business key, and a row under that key
Matched(feat, match_field, lookup) ==
    /\ ~IsNone(Get(feat, "OBJECTID"))
    /\ Truthy(Get(feat, match_field))
    /\ HasRow(lookup, Strip(PyStr(Get(feat, match_field))))

RowFor(feat, match_field, lookup) == lookup[Strip(PyStr(Get(feat, match_field)))]

\* the positions of the payloads addressed to the feature
PayloadsFor(feat) ==
    {u \in 1..Len(updates) : updates[u].attributes["OBJECTID"] = Get(feat, "OBJECTID")}

\* the payload changes nothing on the feature: every attribute it names is
\* held by the feature with the same value
ChangesNothing(attrs, feat) ==
    \A k \in DOMAIN attrs : k \in DOMAIN feat /\ feat[k] = attrs[k]

AllowedKeys ==
    IF pc \in FdhPcs THEN {"OBJECTID", MATCH_FIELD} \cup MappedFields(FIELD_MAPPING)
    ELSE {"OBJECTID"} \cup MappedFields(MDU_FIELD_MAPPING)

\* C2: every attribute of every payload is OBJECTID, the FDH_ID echo (FDH
\* only), or a target attribute of the dataset's field mapping.
MinimalPayloads ==
    \A u \in 1..Len(updates) : DOMAIN updates[u].attributes \subseteq AllowedKeys

\* C2 witness: an MDU payload with mapped attributes was built for a feature
\* that holds a value in an attribute outside the mapping.
MinimalPayloadsWitness ==
    /\ pc \in MduPcs /\ LoopDone
    /\ \E u \in 1..Len(updates) : \E i \in 1..Len(features) :
         /\ Get(features[i], "OBJECTID") = updates[u].attributes["OBJECTID"]
         /\ "PropertyNam" \in DOMAIN updates[u].attributes
         /\ ~IsNone(Get(features[i], "Owner"))
         /\ "Owner" \notin MappedFields(MDU_FIELD_MAPPING)

\* the values of a target attribute that count as empty
EmptyTargets == {NoneV, StrV(<<>>), IntV(0)}

\* null is sent for the attribute when the feature holds a value, and the
\* attribute is not named when it holds none
ClearedOrUntouched(pays, arc_field, arc_before) ==
    IF arc_before \notin EmptyTargets
    THEN /\ Cardinality(pays) = 1
         /\ \A u \in pays : /\ arc_field \in DOMAIN updates[u].attributes
                            /\ updates[u].attributes[arc_field] = NoneV
    ELSE \A u \in pays : arc_field \notin DOMAIN updates[u].attributes

\* the row has no value in any mapped field and the feature none in its dates
NothingToSend(feat, row) ==
    /\ \A k \in 1..Len(FIELD_MAPPING) : row[FIELD_MAPPING[k][1]] \in {NoneV, StrV(<<>>)}
    /\ Get(feat, "CX_Date") \in EmptyTargets
    /\ Get(feat, "OFS_Date") \in EmptyTargets

ClearPolicyAt(feat, row, pays) ==
    /\ \A k \in 1..Len(FIELD_MAPPING) :
         (FIELD_MAPPING[k][2] \in {"CX_Date", "OFS_Date"} /\ Absent(row[FIELD_MAPPING[k][1]]))
            => ClearedOrUntouched(pays, FIELD_MAPPING[k][2], Get(feat, FIELD_MAPPING[k][2]))
    /\ NothingToSend(feat, row) => pays = {}

\* the features the loop has been through
Processed == 1..(idx - 1)

\* C3: for every matched FDH feature the loop has been through and each of
\* CX_Date and OFS_Date whose source value is Absent, the payload holds the
\* attribute with null iff the feature's value is not empty (null, "", 0),
\* and does not name it otherwise; a feature with nothing else to send has no
\* payload.
ClearPolicy ==
    pc \in FdhPcs =>
        \A i \in Processed :
            Matched(features[i], MATCH_FIELD, BuildLookup(qb_rows, "FDH_ID_QB"))
                => ClearPolicyAt(features[i],
                                 RowFor(features[i], MATCH_FIELD,
                                        BuildLookup(qb_rows, "FDH_ID_QB")),
                                 PayloadsFor(features[i]))

\* C3 witness: against a row with no values, a feature holding both dates got
\* a payload that clears both, and a feature holding neither got no payload.
ClearPolicyWitness ==
    /\ pc \in FdhPcs /\ LoopDone /\ pass = 1
    /\ Len(features) = 2 /\ Len(updates) = 1
    /\ Get(updates[1].attributes, "CX_Date") = NoneV
    /\ DOMAIN updates[1].attributes = {"OBJECTID", MATCH_FIELD, "CX_Date", "OFS_Date"}
    /\ \E i \in 1..Len(features) :
         /\ Matched(features[i], MATCH_FIELD, BuildLookup(qb_rows, "FDH_ID_QB"))
         /\ PayloadsFor(features[i]) = {}

\* what the date parser is given of a row's value: the value itself in the
\* FDH loop, the sanitized value in the MDU loop
GivenToParser(val, sanitized) == IF sanitized THEN sanitize_arc_text(val) ELSE val

\* the matched features the loop has been through whose row holds, under
\* qb_label, a value the date parser classifies as Unparseable
UnparseableAt(match_field, lookup, qb_label, sanitized) ==
    {i \in Processed :
        /\ Matched(features[i], match_field, lookup)
        /\ Unparseable(GivenToParser(RowFor(features[i], match_field, lookup)[qb_label],
                                     sanitized))}

\* no payload of these features names the attribute, and the counter holds
\* one for each of them
OmittedAndCounted(hits, arc_field, counter) ==
    /\ \A i \in hits : \A u \in PayloadsFor(features[i]) :
         arc_field \notin DOMAIN updates[u].attributes
    /\ METRICS[counter] = Cardinality(hits)

\* C4: for every matched feature the loop has been through whose source date
\* is Unparseable, the payload does not name the target date attribute, and
\* the defect counter (fdh_cx_unparseable, fdh_ofs_unparseable; errors for
\* the MDU ROE Date) has been incremented once per occurrence, the loop going
\* on with the remaining fields and features.
UnparseablePreservesTarget ==
    IF pc \in FdhPcs
    THEN /\ OmittedAndCounted(
                UnparseableAt(MATCH_FIELD, BuildLookup(qb_rows, "FDH_ID_QB"), "CX Start Date",
                              FALSE),
                "CX_Date", "fdh_cx_unparseable")
         /\ OmittedAndCounted(
                UnparseableAt(MATCH_FIELD, BuildLookup(qb_rows, "FDH_ID_QB"), "OFS Date", FALSE),
                "OFS_Date", "fdh_ofs_unparseable")
    ELSE OmittedAndCounted(
                UnparseableAt(MDU_MATCH_FIELD, BuildLookup(qb_rows, "MDU ID"), "ROE Date", TRUE),
                "ROEDate", "errors")

\* C4 witness: two MDU features share a row whose ROE Date does not parse;
\* both got a payload with the other fields, and errors counts two.
UnparseableWitness ==
    /\ pc \in MduPcs /\ LoopDone /\ pass = 1
    /\ METRICS["errors"] = 2
    /\ Len(updates) = 2
    /\ \A u \in 1..Len(updates) :
         /\ "ROEDate" \notin DOMAIN updates[u].attributes
         /\ "ROESigned" \in DOMAIN updates[u].attributes

(***************************************************************************)
(* The tallies of the update executor.                                      *)
(***************************************************************************)
\* the singleton calls of the running sync that raised
RaisedSingles == {c \in 1..Len(calls) : calls[c].kind = "single" /\ calls[c].raised}

\* the updated_failed counter of the running sync's dataset
UpdatedFailed == METRICS[IF pc \in FdhPcs THEN "fdh_updated_failed" ELSE "mdu_updated_failed"]

\* C11 (as claimed): when the update function of either dataset returns, each
\* singleton retry call that raised has added one to the dataset's
\* updated_failed counter and one to errors, so that errors is not zero when
\* a singleton retry raised.
SingletonFailuresTallied ==
    pc \in ReturnPcs =>
        /\ UpdatedFailed >= Cardinality(RaisedSingles)
        /\ METRICS["errors"] >= Cardinality(RaisedSingles)

(***************************************************************************)
(* The clear policy of the MDU loop.                                        *)
(***************************************************************************)
\* the policy for "ROE Date" on one matched feature, val being the row's value
MduClearPolicyAt(feat, val, pays) ==
    Absent(GivenToParser(val, TRUE))
        => ClearedOrUntouched(pays, "ROEDate", Get(feat, "ROEDate"))

\* C12 (as claimed): for every matched MDU feature the loop has been through
\* whose source ROE Date is Absent, the payload sets ROEDate to null when the
\* feature's ROEDate is not empty, and does not name ROEDate when it is empty.
MduClearPolicy ==
    pc \in MduPcs =>
        \A i \in Processed :
            Matched(features[i], MDU_MATCH_FIELD, BuildLookup(qb_rows, "MDU ID"))
                => MduClearPolicyAt(features[i],
                                    RowFor(features[i], MDU_MATCH_FIELD,
                                           BuildLookup(qb_rows, "MDU ID"))["ROE Date"],
                                    PayloadsFor(features[i]))

(***************************************************************************)
(* The skips of the two loops over the features.                            *)
(***************************************************************************)
HasKey(feat, match_field) == Truthy(Get(feat, match_field))
HasRowFor(feat, match_field, lookup) == HasRow(lookup, Strip(PyStr(Get(feat, match_field))))
HasOid(feat) == ~IsNone(Get(feat, "OBJECTID"))

\* the skip counts <<no business key, no matching row, no OBJECTID>> when each
\* feature the loop has been through is counted under the first reason that
\* applies, in that order
SkipsKeyRowOid(match_field, lookup) ==
    << Cardinality({i \in Processed : ~HasKey(features[i], match_field)}),
       Cardinality({i \in Processed : /\ HasKey(features[i], match_field)
                                      /\ ~HasRowFor(features[i], match_field, lookup)}),
       Cardinality({i \in Processed : /\ HasKey(features[i], match_field)
                                      /\ HasRowFor(features[i], match_field, lookup)
                                      /\ ~HasOid(features[i])}) >>

\* the skip counts when a missing OBJECTID is looked at first and a missing
\* key and a missing row are counted together as "no match"
SkipsOidThenMatch(match_field, lookup) ==
    << 0,
       Cardinality({i \in Processed : /\ HasOid(features[i])
                                      /\ ~(/\ HasKey(features[i], match_field)
                                           /\ HasRowFor(features[i], match_field, lookup))}),
       Cardinality({i \in Processed : ~HasOid(features[i])}) >>

\* a payload is addressed to a feature the loop has been through that has a
\* key, a row under the trimmed key and an OBJECTID, and to no other
PayloadOnlyIfMatched(match_field, lookup) ==
    /\ \A u \in 1..Len(updates) : \E i \in Processed :
         Get(features[i], "OBJECTID") = updates[u].attributes["OBJECTID"]
    /\ \A i \in Processed :
         PayloadsFor(features[i]) # {} => Matched(features[i], match_field, lookup)

FdhSkipMetrics ==
    << METRICS["fdh_skipped_no_id"], METRICS["fdh_skipped_no_qb_match"],
       METRICS["fdh_skipped_no_oid"] >>

FullyReported ==
    \A c \in 1..Len(calls) : ~calls[c].raised => calls[c].results = Len(calls[c].updates)

\* updated_ok + updated_failed of the running sync's dataset
UpdatedTotal ==
    IF pc \in FdhPcs THEN METRICS["fdh_updated_ok"] + METRICS["fdh_updated_failed"]
    ELSE METRICS["mdu_updated_ok"] + METRICS["mdu_updated_failed"]

\* C14 (as claimed): when the update function of either dataset returns and
\* every call that returned reported one result per update, updated_ok +
\* updated_failed equals the number of payloads prepared, also when bulk
\* calls raised and were retried one by one.
AccountingIdentity ==
    (pc \in ReturnPcs /\ FullyReported) => UpdatedTotal = Len(updates)

====
